---- MODULE Spec2Model ----
(***************************************************************************)
(* Model of command-reminder (src/src/main.rs): the reminders file, the    *)
(* three operations do_add / do_remove / do_search, the keyword matcher,   *)
(* the keyword merger and the command invoker.                             *)
(*                                                                         *)
(* A string is a sequence of one-character strings; a list of strings is   *)
(* a sequence of such sequences.  Vector indices are 0-based as in the     *)
(* source; At(v, i) reads v[i].                                            *)
(***************************************************************************)
EXTENDS Integers, Sequences, FiniteSets, TLC

VARIABLES
    store,      \* text of <config_dir>/command-reminder/reminders
    pre,        \* text of the file when the last operation read it
    op,         \* record describing the last operation and its outcome
    m_in,       \* harness of a pure function: the inputs drawn
    m_out,      \* harness of a pure function: the result produced
    procs,      \* step by step: the state of each running invocation
    writer      \* step by step: the invocation that wrote the file last, or 0

vars == <<store, pre, op, m_in, m_out, procs, writer>>

NL == "\n"
SP == " "
MARK == "#"

(***************************************************************************)
(* Bounds                                                                  *)
(***************************************************************************)
\* an add of a new command is taken only while the file holds at most this many
\* characters (two records of the inputs below fit, with or without a blank line)
MaxStoreLen == 8

\* the merger harness draws keyword strings of at most this many tokens
MaxTokens == 2

\* the step-by-step specification starts at most this many invocations
MaxRuns == 3

\* the matcher harness draws stores of at most this many lines
MaxMatchLines == 2

(***************************************************************************)
(* String helpers (Rust std)                                               *)
(***************************************************************************)
At(v, i) == v[i + 1]

Range(s) == { s[i] : i \in 1..Len(s) }

Reverse(s) == [ i \in 1..Len(s) |-> s[Len(s) + 1 - i] ]

\* str::split(c): the pieces between occurrences of c; always at least one piece
RECURSIVE Split(_, _)
Split(s, c) ==
    IF \E i \in 1..Len(s) : s[i] = c
    THEN LET i == CHOOSE k \in 1..Len(s) : s[k] = c /\ \A j \in 1..(k - 1) : s[j] # c
         IN  <<SubSeq(s, 1, i - 1)>> \o Split(SubSeq(s, i + 1, Len(s)), c)
    ELSE <<s>>

\* str::splitn(2, c): split at the first occurrence of c only
Splitn2(s, c) ==
    IF \E i \in 1..Len(s) : s[i] = c
    THEN LET i == CHOOSE k \in 1..Len(s) : s[k] = c /\ \A j \in 1..(k - 1) : s[j] # c
         IN  <<SubSeq(s, 1, i - 1), SubSeq(s, i + 1, Len(s))>>
    ELSE <<s>>

\* str::lines(): split on newlines; a final empty piece is not a line
\* (the strings of this model hold no carriage return)
Lines(text) ==
    LET parts == Split(text, NL)
    IN  IF parts[Len(parts)] = <<>> THEN SubSeq(parts, 1, Len(parts) - 1) ELSE parts

\* [&str]::join(sep)
RECURSIVE Join(_, _)
Join(v, sep) ==
    IF Len(v) = 0 THEN <<>>
    ELSE IF Len(v) = 1 THEN v[1]
    ELSE v[1] \o sep \o Join(Tail(v), sep)

\* str::starts_with
StartsWith(s, p) == Len(p) <= Len(s) /\ SubSeq(s, 1, Len(p)) = p

\* str::contains: p occurs in s as a substring (the empty string always does)
Contains(s, p) ==
    \E i \in 1..(Len(s) - Len(p) + 1) : SubSeq(s, i, i + Len(p) - 1) = p

\* str::is_empty() without the trim
IsEmptyNoTrim(s) == Len(s) = 0

\* str::trim().is_empty()
TrimIsEmpty(s) == \A i \in 1..Len(s) : s[i] \in {SP, NL}

\* Vec::remove(i) on a vector where i is in range
VecRemove(v, i) == SubSeq(v, 1, i) \o SubSeq(v, i + 2, Len(v))

\* the enumerations of a finite set, each element once: the orders in which
\* a HashSet may be iterated
Orders(S) ==
    { o \in [1..Cardinality(S) -> S] : \A i, j \in 1..Cardinality(S) : i # j => o[i] # o[j] }

(***************************************************************************)
(* Inputs                                                                  *)
(***************************************************************************)
\* answers of ask_yes_no: Ok(true), Ok(false), Err(_)
Answers == {"yes", "no", "fail"}

\* the command argument of --add
Commands ==
    { <<>>, <<SP>>,
      <<"a">>, <<"b", SP, "a">>, <<MARK, SP, "a">> }

\* the keywords argument of --add
AddKeywords ==
    { <<"a">>, <<"b">>, <<"a", SP, "a">> }

\* the keywords argument of --remove
RemoveKeywords ==
    { <<>>, <<"a">>, <<"b">> }

\* the positional search keywords
SearchKeywords ==
    { <<<<"a">>>>, <<<<"b">>>>, <<<<"a">>, <<"b">>>> }

(***************************************************************************)
(* File access                                                             *)
(***************************************************************************)
\* read_to_string of the reminders file
read_reminders_file == store

\* truncate, then writeln!(file, "{}", data): the file's new text
write_reminders_file(data) == data \o <<NL>>

(***************************************************************************)
(* Keyword matcher                                                         *)
(***************************************************************************)
\* find_matching_commands comparing the keywords with the line's tokens
find_matching_commands_token_exact(data_lines, keywords) ==
    LET hit(idx) == /\ StartsWith(At(data_lines, idx), <<MARK>>)
                    /\ \E k \in 1..Len(keywords) :
                         keywords[k] \in Range(Split(At(data_lines, idx), SP))
        F[n \in 0..Len(data_lines)] ==
            IF n = 0 THEN <<>>
            ELSE IF hit(n - 1) THEN Append(F[n - 1], n) ELSE F[n - 1]
    IN  F[Len(data_lines)]

\* idx + 1 for every line idx that starts with "#" and contains a keyword
find_matching_commands(data_lines, keywords) ==
    LET hit(idx) == /\ StartsWith(At(data_lines, idx), <<MARK>>)
                    /\ \E k \in 1..Len(keywords) : Contains(At(data_lines, idx), keywords[k])
        F[n \in 0..Len(data_lines)] ==
            IF n = 0 THEN <<>>
            ELSE IF hit(n - 1) THEN Append(F[n - 1], n) ELSE F[n - 1]
    IN  F[Len(data_lines)]

(***************************************************************************)
(* Keyword merger                                                          *)
(***************************************************************************)
\* keywords_set without keywords_set.remove("#")
keywords_set_keeps_marker(keywords_str, keywords) ==
    Range(Split(keywords, SP)) \cup Range(Split(keywords_str, SP))

\* the HashSet built from the new keywords and the existing line, "#" removed
keywords_set(keywords_str, keywords) ==
    (Range(Split(keywords, SP)) \cup Range(Split(keywords_str, SP))) \ {<<MARK>>}

\* the set's elements in iteration order `order`, joined, "# " inserted in front
merged_keywords(order) == <<MARK, SP>> \o Join(order, <<SP>>)

\* data_lines[command_line - 1] exists (else the subtraction overflows or the
\* index is out of range, and the process panics either way)
merge_in_range(data, command_line) ==
    command_line >= 1 /\ command_line - 1 < Len(Lines(data))

\* merge_keywords pushing the merged line instead of replacing the old one
merge_keywords_push(data, keywords, command_line, order) ==
    Join(Append(Lines(data), merged_keywords(order)), <<NL>>)

\* the text handed to write_reminders_file by merge_keywords
merge_keywords(data, keywords, command_line, order) ==
    LET data_lines == Lines(data)
    IN  Join([data_lines EXCEPT ![command_line] = merged_keywords(order)], <<NL>>)

(***************************************************************************)
(* Command invoker                                                         *)
(***************************************************************************)
\* cmd_parts[1] exists
run_in_range(cmd) == Len(Splitn2(cmd, SP)) >= 2

\* the program handed to execvp
run_program(cmd) == Splitn2(cmd, SP)[1]

\* the argument vector handed to execvp
run_args(cmd) == Split(Splitn2(cmd, SP)[2], SP)

(***************************************************************************)
(* Operations                                                              *)
(***************************************************************************)
NoOp ==
    [ name |-> "none", command |-> <<>>, keywords |-> <<>>, terms |-> <<>>,
      matches |-> <<>>, answers |-> <<>>, choice |-> 0 - 1,
      invoked |-> <<>>, program |-> <<>>, args |-> <<>>,
      wrote |-> FALSE, result |-> "Ok" ]

\* add_new_command with the record put in front of the existing text
add_new_command_prepend(data, command, keywords) ==
    <<MARK, SP>> \o keywords \o <<NL>> \o command \o <<NL>> \o data

\* add_new_command: the text handed to write_reminders_file
add_new_command(data, command, keywords) ==
    data \o <<MARK, SP>> \o keywords \o <<NL>> \o command

\* the index of the first line equal to command, or -1
first_equal_line(data, command) ==
    LET data_lines == Lines(data)
        found == { i \in 0..(Len(data_lines) - 1) : At(data_lines, i) = command }
    IN  IF found = {} THEN 0 - 1
        ELSE CHOOSE i \in found : \A j \in found : i <= j

\* add_to_preexisting_command taking a failed prompt for a yes, as do_remove does
add_to_preexisting_command_fail_open(data, command, keywords, command_line, answer, order) ==
    IF answer = "no" THEN <<data, FALSE, "Ok">>
    ELSE IF ~merge_in_range(data, command_line) THEN <<data, FALSE, "panic">>
    ELSE <<write_reminders_file(merge_keywords(data, keywords, command_line, order)),
           TRUE, "Ok">>

\* the outcome of add_to_preexisting_command for one prompt answer and one
\* iteration order of the keyword set: <<new file text, wrote, result>>
add_to_preexisting_command(data, command, keywords, command_line, answer, order) ==
    IF answer = "fail" THEN <<data, FALSE, "ReadingInputFailed">>
    ELSE IF answer = "no" THEN <<data, FALSE, "Ok">>
    ELSE IF ~merge_in_range(data, command_line) THEN <<data, FALSE, "panic">>
    ELSE <<write_reminders_file(merge_keywords(data, keywords, command_line, order)),
           TRUE, "Ok">>

do_add ==
    \E command \in Commands, keywords \in AddKeywords :
      LET data == read_reminders_file
          line_index == first_equal_line(data, command)
          base == [NoOp EXCEPT !.name = "add", !.command = command, !.keywords = keywords]
      IN  /\ op = NoOp
          /\ pre' = data
          /\ UNCHANGED <<m_in, m_out, procs, writer>>
          /\ IF TrimIsEmpty(command)
             THEN /\ store' = store
                  /\ op' = [base EXCEPT !.result = "AddFailed"]
             ELSE IF line_index >= 0
             THEN \E answer \in Answers :
                    LET ks == IF answer = "yes" /\ merge_in_range(data, line_index)
                              THEN keywords_set(At(Lines(data), line_index - 1), keywords)
                              ELSE {}
                    IN  \E order \in Orders(ks) :
                          LET r == add_to_preexisting_command(
                                       data, command, keywords, line_index, answer, order)
                          IN  /\ store' = r[1]
                              /\ op' = [base EXCEPT !.answers = <<answer>>,
                                                    !.matches = <<line_index>>,
                                                    !.wrote = r[2], !.result = r[3]]
             ELSE /\ Len(data) <= MaxStoreLen
                  /\ store' = write_reminders_file(add_new_command(data, command, keywords))
                  /\ op' = [base EXCEPT !.wrote = TRUE]

\* the closure with Err(_) => false
remove_command_filter_fail_closed(answer) == answer = "yes"

\* the closure passed to filter in do_remove: Err(_) => true, Ok(v) => v
remove_command_filter(answer) == answer # "no"

\* the elements of v whose position p has keep[p], in order
RECURSIVE Filter(_, _)
Filter(v, keep) ==
    IF Len(v) = 0 THEN <<>>
    ELSE (IF keep[1] THEN <<v[1]>> ELSE <<>>) \o Filter(Tail(v), Tail(keep))

\* the removal loop of do_remove: for each cmd_line, remove(cmd_line) and then
\* remove(cmd_line - 1); ok is FALSE when a remove is out of range (a panic)
RECURSIVE remove_records(_, _)
remove_records(data_lines, removed_indices) ==
    IF Len(removed_indices) = 0 THEN [ok |-> TRUE, lines |-> data_lines]
    ELSE LET cmd_line == removed_indices[1]
         IN  IF cmd_line >= Len(data_lines) \/ cmd_line < 1
             THEN [ok |-> FALSE, lines |-> data_lines]
             ELSE remove_records(VecRemove(VecRemove(data_lines, cmd_line), cmd_line - 1),
                                 Tail(removed_indices))

\* the number of candidates the filter of do_remove prompts for: it reads
\* data_lines[l] for the prompt text and panics at the first l out of range
prompted(data_lines, matching_indices) ==
    LET bad == { p \in 1..Len(matching_indices) : matching_indices[p] >= Len(data_lines) }
    IN  IF bad = {} THEN Len(matching_indices)
        ELSE (CHOOSE p \in bad : \A q \in bad : p <= q) - 1

do_remove ==
    \E keywords \in RemoveKeywords :
      LET data == read_reminders_file
          data_lines == Lines(data)
          keywords_vec == Split(keywords, SP)
          matching_indices == find_matching_commands(data_lines, keywords_vec)
          asked == prompted(data_lines, matching_indices)
          base == [NoOp EXCEPT !.name = "remove", !.keywords = keywords,
                               !.terms = keywords_vec, !.matches = matching_indices]
      IN  \E answers \in [1..asked -> Answers] :
            LET keep == [p \in 1..asked |-> remove_command_filter(answers[p])]
                removed_indices == Reverse(Filter(matching_indices, keep))
                r == remove_records(data_lines, removed_indices)
            IN  /\ op = NoOp
                /\ pre' = data
                /\ UNCHANGED <<m_in, m_out, procs, writer>>
                /\ IF asked < Len(matching_indices) \/ ~r.ok
                   THEN /\ store' = store
                        /\ op' = [base EXCEPT !.answers = answers, !.result = "panic"]
                   ELSE /\ store' = write_reminders_file(Join(r.lines, <<NL>>))
                        /\ op' = [base EXCEPT !.answers = answers, !.wrote = TRUE]

\* the line do_search prompts for and runs when the matcher returns one index
single_match_line(data_lines, cmd_vec) == At(data_lines, 0)

\* run_command(cmd) from do_search: the op record after the hand-off; the
\* program and arguments are those given to execvp, which replaces the
\* process (exec) or returns an error
run_command(base, cmd, exec_ok) ==
    IF ~run_in_range(cmd) THEN [base EXCEPT !.invoked = <<cmd>>, !.result = "panic"]
    ELSE [base EXCEPT !.invoked = <<cmd>>,
                      !.program = run_program(cmd), !.args = run_args(cmd),
                      !.result = IF exec_ok THEN "exec" ELSE "RunningCommandFailed"]

do_search ==
    \E keywords \in SearchKeywords, exec_ok \in BOOLEAN :
      LET data == read_reminders_file
          data_lines == Lines(data)
          cmd_vec == find_matching_commands(data_lines, keywords)
          base == [NoOp EXCEPT !.name = "search", !.terms = keywords, !.matches = cmd_vec]
      IN  /\ op = NoOp
          /\ pre' = data
          /\ store' = store
          /\ UNCHANGED <<m_in, m_out, procs, writer>>
          /\ IF Len(cmd_vec) = 0 THEN exec_ok /\ op' = base
             ELSE IF Len(cmd_vec) = 1
             THEN \E answer \in Answers :
                    LET asked == [base EXCEPT !.answers = <<answer>>]
                    IN  IF answer = "fail"
                        THEN exec_ok /\ op' = [asked EXCEPT !.result = "ReadingInputFailed"]
                        ELSE IF answer = "no" THEN exec_ok /\ op' = asked
                        ELSE op' = run_command(asked, single_match_line(data_lines, cmd_vec),
                                               exec_ok)
             ELSE IF \E p \in 1..Len(cmd_vec) : cmd_vec[p] >= Len(data_lines)
             THEN exec_ok /\ op' = [base EXCEPT !.result = "panic"]
             ELSE LET options == [p \in 1..Len(cmd_vec) |-> At(data_lines, cmd_vec[p])]
                  IN  \/ exec_ok /\ op' = [base EXCEPT !.result = "ReadingInputFailed"]
                      \/ \E cmd_number \in 0..(Len(options) - 1) :
                           op' = run_command([base EXCEPT !.choice = cmd_number],
                                             At(options, cmd_number), exec_ok)

(***************************************************************************)
(* Specification of the tool: any sequence of invocations on a fresh file  *)
(***************************************************************************)
Init ==
    /\ store = <<>>
    /\ pre = <<>>
    /\ op = NoOp
    /\ m_in = <<>>
    /\ m_out = <<>>
    /\ procs = <<>>
    /\ writer = 0

\* the process of the invocation ends; nothing but the file survives it
exit ==
    /\ op # NoOp
    /\ op' = NoOp
    /\ pre' = <<>>
    /\ UNCHANGED <<store, m_in, m_out, procs, writer>>

Next == do_add \/ do_remove \/ do_search \/ exit

Spec == Init /\ [][Next]_vars

(***************************************************************************)
(* Specification of the keyword merger alone: an existing keyword line and *)
(* new keywords are drawn, and merge_keywords' line computation is applied *)
(* to them, or to the same tokens in reversed order, under every iteration *)
(* order of the HashSet.                                                   *)
(***************************************************************************)
MergeTokens == { <<"a">>, <<"b">>, <<MARK>>, <<>> }

TokenSeqs == UNION { [1..n -> MergeTokens] : n \in 0..MaxTokens }

InitMerge ==
    /\ store = <<>>
    /\ pre = <<>>
    /\ op = NoOp
    /\ m_in \in [ existing : TokenSeqs, new : TokenSeqs ]
    /\ m_out = <<>>
    /\ procs = <<>>
    /\ writer = 0

merge_line ==
    /\ m_out = <<>>
    /\ \E reversed \in BOOLEAN :
         LET e == IF reversed THEN Reverse(m_in.existing) ELSE m_in.existing
             n == IF reversed THEN Reverse(m_in.new) ELSE m_in.new
             keywords_str == <<MARK, SP>> \o Join(e, <<SP>>)
             keywords == Join(n, <<SP>>)
         IN  \E order \in Orders(keywords_set(keywords_str, keywords)) :
               m_out' = <<[ keywords_str |-> keywords_str, keywords |-> keywords,
                            merged |-> merged_keywords(order) ]>>
    /\ UNCHANGED <<store, pre, op, m_in, procs, writer>>

NextMerge == merge_line

SpecMerge == InitMerge /\ [][NextMerge]_vars

(***************************************************************************)
(* Specification of the keyword matcher alone: the lines of a store and a  *)
(* list of search keywords are drawn and find_matching_commands is applied.*)
(***************************************************************************)
MatchLines ==
    { <<MARK, SP, "a", "b">>, <<MARK, SP, "b">>, <<"a">>, <<"a", MARK>>, <<>> }

MatchKeywords == { <<"a">>, <<"b">>, <<"b", "a">>, <<>> }

InitMatch ==
    /\ store = <<>>
    /\ pre = <<>>
    /\ op = NoOp
    /\ m_in \in [ data_lines : UNION { [1..n -> MatchLines] : n \in 0..MaxMatchLines },
                  keywords : UNION { [1..n -> MatchKeywords] : n \in 1..2 } ]
    /\ m_out = <<>>
    /\ procs = <<>>
    /\ writer = 0

match_lines ==
    /\ m_out = <<>>
    /\ m_out' = <<find_matching_commands(m_in.data_lines, m_in.keywords)>>
    /\ UNCHANGED <<store, pre, op, m_in, procs, writer>>

NextMatch == match_lines

SpecMatch == InitMatch /\ [][NextMatch]_vars

(***************************************************************************)
(* Specification of concurrent invocations, step by step: two processes    *)
(* run the tool on the same file.  An invocation reads the file, computes  *)
(* on its own copy, prompts, and rewrites the file; nothing locks the file *)
(* between the steps, so the steps of the two processes interleave freely. *)
(***************************************************************************)
Procs == {1, 2}

StepCommands == { <<>>, <<"a">>, <<"b", SP, "a">> }

StepKeywords == { <<"a">> }

\* what the user types at ask_multiple to pick option number k
ChoiceNames == <<"1", "2", "3", "4", "5", "6", "7", "8">>

\* a process that is not running the tool
IdleProc ==
    [ pc |-> "idle", name |-> "none", command |-> <<>>, keywords |-> <<>>,
      terms |-> <<>>, data |-> <<>>, matches |-> <<>>, asked |-> 0,
      answers |-> <<>>, out |-> <<>>, result |-> "Ok", log |-> <<>>, runs |-> 0 ]

\* the process ends with `result`
ended(r, result) == [r EXCEPT !.pc = "done", !.result = result]

\* do_add from the read to its first prompt or to its write
read_add(r, data) ==
    LET line_index == first_equal_line(data, r.command)
    IN  IF TrimIsEmpty(r.command) THEN ended(r, "AddFailed")
        ELSE IF line_index >= 0
        THEN [r EXCEPT !.pc = "ask", !.matches = <<line_index>>, !.asked = 1]
        ELSE [r EXCEPT !.pc = "write",
                       !.out = add_new_command(data, r.command, r.keywords)]

\* do_remove from the read to its first prompt or to its write
read_remove(r, data) ==
    LET data_lines == Lines(data)
        keywords_vec == Split(r.keywords, SP)
        matching_indices == find_matching_commands(data_lines, keywords_vec)
        asked == prompted(data_lines, matching_indices)
        base == [r EXCEPT !.terms = keywords_vec, !.matches = matching_indices,
                          !.asked = asked]
    IN  IF asked > 0 THEN [base EXCEPT !.pc = "ask"]
        ELSE IF Len(matching_indices) > 0 THEN ended(base, "panic")
        ELSE [base EXCEPT !.pc = "write", !.out = Join(data_lines, <<NL>>)]

\* do_search rewriting the file it read when nothing matched, as do_remove does
read_search_saves(r, data) ==
    LET data_lines == Lines(data)
        cmd_vec == find_matching_commands(data_lines, <<r.keywords>>)
        base == [r EXCEPT !.terms = <<r.keywords>>, !.matches = cmd_vec]
    IN  IF Len(cmd_vec) = 0
        THEN [base EXCEPT !.pc = "write", !.out = Join(data_lines, <<NL>>)]
        ELSE IF \E p \in 1..Len(cmd_vec) : cmd_vec[p] >= Len(data_lines)
        THEN ended(base, "panic")
        ELSE [base EXCEPT !.pc = "ask", !.asked = 1]

\* do_search from the read to its prompt or to its end
read_search(r, data) ==
    LET data_lines == Lines(data)
        cmd_vec == find_matching_commands(data_lines, <<r.keywords>>)
        base == [r EXCEPT !.terms = <<r.keywords>>, !.matches = cmd_vec]
    IN  IF Len(cmd_vec) = 0 THEN ended(base, "Ok")
        ELSE IF Len(cmd_vec) = 1 THEN [base EXCEPT !.pc = "ask", !.asked = 1]
        ELSE IF \E p \in 1..Len(cmd_vec) : cmd_vec[p] >= Len(data_lines)
        THEN ended(base, "panic")
        ELSE [base EXCEPT !.pc = "ask", !.asked = 1]

\* run_command at the end of do_search: the ways the process can end
run_ends(r, cmd) ==
    IF ~run_in_range(cmd) THEN { ended(r, "panic") }
    ELSE { ended([r EXCEPT !.log = Append(@, "exec")], result) :
             result \in {"exec", "RunningCommandFailed"} }

\* what the user can type at the prompt the process is waiting at
prompt_answers(r) ==
    IF r.name = "search" /\ Len(r.matches) >= 2
    THEN {"fail"} \cup { ChoiceNames[k] : k \in 1..Len(r.matches) }
    ELSE Answers

\* the code after the last prompt of the invocation, up to its write or its end
after_prompts(r) ==
    LET data_lines == Lines(r.data)
    IN  IF r.name = "add"
        THEN IF r.answers[1] = "fail" THEN { ended(r, "ReadingInputFailed") }
             ELSE IF r.answers[1] = "no" THEN { ended(r, "Ok") }
             ELSE IF ~merge_in_range(r.data, r.matches[1]) THEN { ended(r, "panic") }
             ELSE { [r EXCEPT !.pc = "write",
                              !.out = merge_keywords(r.data, r.keywords, r.matches[1], order)] :
                      order \in Orders(keywords_set(At(data_lines, r.matches[1] - 1),
                                                    r.keywords)) }
        ELSE IF r.name = "remove"
        THEN LET keep == [p \in 1..r.asked |-> remove_command_filter(r.answers[p])]
                 removed_indices == Reverse(Filter(r.matches, keep))
                 rr == remove_records(data_lines, removed_indices)
             IN  IF r.asked < Len(r.matches) \/ ~rr.ok THEN { ended(r, "panic") }
                 ELSE { [r EXCEPT !.pc = "write", !.out = Join(rr.lines, <<NL>>)] }
        ELSE IF r.answers[1] = "fail" THEN { ended(r, "ReadingInputFailed") }
        ELSE IF Len(r.matches) = 1
        THEN IF r.answers[1] = "no" THEN { ended(r, "Ok") }
             ELSE run_ends(r, single_match_line(data_lines, r.matches))
        ELSE LET cmd_number == (CHOOSE k \in 1..Len(r.matches) :
                                    ChoiceNames[k] = r.answers[1]) - 1
             IN  run_ends(r, At(data_lines, At(r.matches, cmd_number)))

InitSteps ==
    /\ store = <<>>
    /\ pre = <<>>
    /\ op = NoOp
    /\ m_in = <<>>
    /\ m_out = <<>>
    /\ procs = [p \in Procs |-> IdleProc]
    /\ writer = 0

\* a process starts the tool with its arguments
invoke(p) ==
    /\ procs[p].pc = "idle"
    /\ procs[1].runs + procs[2].runs < MaxRuns
    /\ \E name \in {"add", "remove", "search"}, command \in StepCommands,
          keywords \in StepKeywords :
         /\ name # "add" => command = <<>>
         /\ procs' = [procs EXCEPT ![p] =
                        [IdleProc EXCEPT !.pc = "start", !.name = name,
                                         !.command = command, !.keywords = keywords,
                                         !.runs = procs[p].runs + 1]]
    /\ UNCHANGED <<store, pre, op, m_in, m_out, writer>>

\* read_reminders_file, and the code up to the first prompt
read(p) ==
    LET data == read_reminders_file
        r == [procs[p] EXCEPT !.data = data, !.log = <<"read">>]
    IN  /\ procs[p].pc = "start"
        /\ (r.name = "add" /\ read_add(r, data).pc = "write") => Len(data) <= MaxStoreLen
        /\ procs' = [procs EXCEPT ![p] =
                       IF r.name = "add" THEN read_add(r, data)
                       ELSE IF r.name = "remove" THEN read_remove(r, data)
                       ELSE read_search(r, data)]
        /\ UNCHANGED <<store, pre, op, m_in, m_out, writer>>

\* one prompt is answered; after the last one the code runs on to the write
ask(p) ==
    /\ procs[p].pc = "ask"
    /\ \E answer \in prompt_answers(procs[p]) :
         LET r == [procs[p] EXCEPT !.answers = Append(@, answer),
                                   !.log = Append(@, "prompt")]
         IN  IF Len(r.answers) < r.asked
             THEN procs' = [procs EXCEPT ![p] = r]
             ELSE \E r2 \in after_prompts(r) : procs' = [procs EXCEPT ![p] = r2]
    /\ UNCHANGED <<store, pre, op, m_in, m_out, writer>>

\* write_reminders_file reading the file again and appending the record to it
write_rereads(p) ==
    LET r == procs[p]
    IN  /\ r.pc = "write"
        /\ store' = IF r.name = "add" /\ r.answers = <<>>
                    THEN write_reminders_file(add_new_command(store, r.command, r.keywords))
                    ELSE write_reminders_file(r.out)
        /\ procs' = [procs EXCEPT ![p] = ended([r EXCEPT !.log = Append(@, "write")], "Ok")]
        /\ writer' = p
        /\ UNCHANGED <<pre, op, m_in, m_out>>

\* write_reminders_file: the file becomes the text computed from the copy read
write(p) ==
    LET r == procs[p]
    IN  /\ r.pc = "write"
        /\ store' = write_reminders_file(r.out)
        /\ procs' = [procs EXCEPT ![p] = ended([r EXCEPT !.log = Append(@, "write")], "Ok")]
        /\ writer' = p
        /\ UNCHANGED <<pre, op, m_in, m_out>>

\* the process ends
proc_exit(p) ==
    /\ procs[p].pc = "done"
    /\ procs' = [procs EXCEPT ![p] = [IdleProc EXCEPT !.runs = procs[p].runs]]
    /\ writer' = IF writer = p THEN 0 ELSE writer
    /\ UNCHANGED <<store, pre, op, m_in, m_out>>

NextSteps == \E p \in Procs : invoke(p) \/ read(p) \/ ask(p) \/ write(p) \/ proc_exit(p)

SpecSteps == InitSteps /\ [][NextSteps]_vars

(***************************************************************************)
(* Vocabulary of the properties                                            *)
(***************************************************************************)
\* the keyword tokens of a string: its non-empty space-separated pieces, in order
Tokens(s) == LET parts == Split(s, SP)
             IN  Filter(parts, [p \in 1..Len(parts) |-> parts[p] # <<>>])

PreLines == Lines(pre)

StoreLines == Lines(store)

\* record pairs: a line starting with the marker, then a command line that does not
WellFormed(lines) ==
    /\ Len(lines) % 2 = 0
    /\ \A i \in 0..(Len(lines) - 1) :
         (i % 2 = 0) <=> StartsWith(At(lines, i), <<MARK>>)

(***************************************************************************)
(* C1: when the matcher returns exactly one index i and the run prompt is  *)
(* answered yes, do_search hands the store line at index i to run_command. *)
(***************************************************************************)
C1_SearchRunsMatchedLine ==
    (op.name = "search" /\ Len(op.matches) = 1 /\ op.answers = <<"yes">>)
        => /\ op.matches[1] < Len(PreLines)
           /\ op.invoked = <<At(PreLines, op.matches[1])>>

(***************************************************************************)
(* C2: after any sequence of add, remove and search from the empty file,   *)
(* the file has an even number of lines (zero when nothing is stored).     *)
(***************************************************************************)
C2_EvenLineCount == Len(StoreLines) % 2 = 0

(***************************************************************************)
(* C3: add of a command that is not empty after trimming and equals no     *)
(* existing line succeeds and appends the keyword line "# <keywords>" and  *)
(* the command line to the end; the lines before keep their index.         *)
(***************************************************************************)
C3_AddNewAppendsPair ==
    (op.name = "add" /\ ~TrimIsEmpty(op.command) /\ op.command \notin Range(PreLines))
        => /\ op.result = "Ok"
           /\ StoreLines = PreLines \o << <<MARK, SP>> \o op.keywords, op.command >>

C3_Witness ==
    /\ op.name = "add" /\ ~TrimIsEmpty(op.command) /\ op.command \notin Range(PreLines)
    /\ Len(PreLines) >= 2
    /\ Len(StoreLines) = Len(PreLines) + 2

(***************************************************************************)
(* C4: in a store of record pairs (keyword lines at the even indices), an  *)
(* add that finds a line equal to command and whose merge prompt is        *)
(* answered yes has matched a command line, does not fail with an index    *)
(* out of range, and changes no line but the keyword line before the match.*)
(***************************************************************************)
PairedStore(lines) ==
    /\ Len(lines) % 2 = 0
    /\ \A i \in 0..(Len(lines) - 1) :
         (i % 2 = 0) => StartsWith(At(lines, i), <<MARK, SP>>)

C4_MergeChangesOnlyKeywordLine ==
    (op.name = "add" /\ op.answers = <<"yes">> /\ PairedStore(PreLines))
        => /\ op.matches[1] % 2 = 1
           /\ op.result = "Ok"
           /\ Len(StoreLines) = Len(PreLines)
           /\ \A j \in 0..(Len(PreLines) - 1) :
                j # op.matches[1] - 1 => At(StoreLines, j) = At(PreLines, j)

(***************************************************************************)
(* C5: on a store of well-formed record pairs, remove deletes exactly the  *)
(* pairs of the candidates answered yes: the file's lines are the original *)
(* lines without those pairs, two lines fewer per confirmed removal.       *)
(***************************************************************************)
\* the candidates of the last remove that were answered yes
Confirmed ==
    { op.matches[p] : p \in { q \in 1..Len(op.answers) : op.answers[q] = "yes" } }

\* lines without the command line and the keyword line of every index in S
DeletePairs(lines, S) ==
    Filter(lines, [p \in 1..Len(lines) |-> (p - 1) \notin S /\ p \notin S])

C5_RemoveDeletesPairs ==
    (/\ op.name = "remove" /\ WellFormed(PreLines)
     /\ Len(op.matches) >= 1 /\ Len(op.answers) = Len(op.matches)
     /\ \A p \in 1..Len(op.answers) : op.answers[p] \in {"yes", "no"})
        => /\ op.result = "Ok"
           /\ StoreLines = DeletePairs(PreLines, Confirmed)
           /\ Len(StoreLines) = Len(PreLines) - 2 * Cardinality(Confirmed)

(***************************************************************************)
(* C6: remove with an empty keywords string, or with keywords that match   *)
(* no record, leaves the file's text identical, whatever the answers.      *)
(***************************************************************************)
C6_RemoveNothingKeepsText ==
    (op.name = "remove" /\ (op.keywords = <<>> \/ Len(op.matches) = 0))
        => store = pre

(***************************************************************************)
(* C7 as claimed: when add finds the command and the merge prompt is       *)
(* answered no or fails, the file is unchanged and add returns success.    *)
(***************************************************************************)
AddFoundCommand ==
    op.name = "add" /\ ~TrimIsEmpty(op.command) /\ op.command \in Range(PreLines)

C8_AddThenRemoveIsEmpty ==
    (/\ op.name = "remove" /\ WellFormed(PreLines) /\ Len(PreLines) = 2
     /\ op.matches = <<1>> /\ op.answers = <<"yes">>)
        => store = <<>> /\ Len(StoreLines) = 0

(***************************************************************************)
(* C9: each record's keyword line has pairwise distinct tokens, and the    *)
(* marker is its first token and no other.                                 *)
(***************************************************************************)
DistinctTokens(line) ==
    LET t == Tokens(line)
    IN  \A i, j \in 1..Len(t) : i # j => t[i] # t[j]

MarkerOnceFirst(line) ==
    LET t == Tokens(line)
    IN  /\ Len(t) >= 1 /\ t[1] = <<MARK>>
        /\ \A i \in 2..Len(t) : t[i] # <<MARK>>

C9_KeywordLinesAreSets ==
    WellFormed(StoreLines)
        => \A i \in 0..(Len(StoreLines) - 1) :
             (i % 2 = 0) => /\ DistinctTokens(At(StoreLines, i))
                            /\ MarkerOnceFirst(At(StoreLines, i))

(***************************************************************************)
(* C10: the merged line's tokens are the marker, first and once, and then  *)
(* exactly the tokens of the existing line and of the new keywords other   *)
(* than the marker, each once: the token set does not depend on the order  *)
(* of the tokens in either input nor on the set's iteration order, and     *)
(* merging a line's own keywords into it keeps its set.                    *)
(***************************************************************************)
\* the keyword tokens of a string other than the marker, as a set
TokenSet(s) == Range(Tokens(s)) \ {<<MARK>>}

C10_MergeIsUnion ==
    m_out # <<>>
        => LET k1 == TokenSet(<<MARK, SP>> \o Join(m_in.existing, <<SP>>))
               k2 == TokenSet(Join(m_in.new, <<SP>>))
               merged == m_out[1].merged
           IN  /\ TokenSet(merged) = k1 \cup k2
               /\ MarkerOnceFirst(merged)
               /\ DistinctTokens(merged)
               /\ k2 \subseteq k1 => TokenSet(merged) = k1

C10_Witness ==
    /\ m_out # <<>>
    /\ m_in.existing = <<<<"a">>, <<"b">>>>
    /\ m_in.new = <<<<MARK>>, <<"a">>>>
    /\ m_out[1].keywords_str = <<MARK, SP, "b", SP, "a">>
    /\ m_out[1].merged = <<MARK, SP, "b", SP, "a">>

(***************************************************************************)
(* C11: parsing a store text with an even number of lines (zero included)  *)
(* and serializing the lines as a rewrite does gives the text back.        *)
(***************************************************************************)
\* the line splitting every operation applies to the text it read
parse(text) == Lines(text)

\* the text a rewrite leaves in the file: the lines joined by newlines,
\* written with writeln!
serialize(lines) == write_reminders_file(Join(lines, <<NL>>))

C11_RoundTrip ==
    Len(parse(store)) % 2 = 0 => serialize(parse(store)) = store

(***************************************************************************)
(* C12: no two records of the file have the same command line.             *)
(***************************************************************************)
\* the file's lines after the blank line a rewrite of nothing leaves in front
RecordLines(lines) ==
    IF Len(lines) >= 1 /\ lines[1] = <<>> THEN Tail(lines) ELSE lines

\* the second lines of the consecutive pairs of lines
CommandLines(lines) ==
    LET r == RecordLines(lines)
    IN  [k \in 1..(Len(r) \div 2) |-> r[2 * k]]

C12_CommandLinesDistinct ==
    LET c == CommandLines(StoreLines)
    IN  \A i, j \in 1..Len(c) : i # j => c[i] # c[j]

(***************************************************************************)
(* C13: an add of a command that is already a line of the file leaves the  *)
(* number of lines as it was, whatever the answer to the merge prompt.     *)
(***************************************************************************)
C13_AddExistingKeepsLineCount ==
    AddFoundCommand => Len(StoreLines) = Len(PreLines)

C13_Witness ==
    /\ AddFoundCommand /\ op.answers = <<"yes">> /\ op.wrote
    /\ store # pre /\ Len(StoreLines) = Len(PreLines) /\ Len(PreLines) = 4

(***************************************************************************)
(* C14: a remove never fails with the input-read error; on a file of       *)
(* record pairs it prompts for every candidate, and the file it writes is  *)
(* the rewrite of the lines without the pairs of the candidates whose      *)
(* prompt was answered yes or failed.                                      *)
(***************************************************************************)
\* record pairs, possibly after the blank line in front
Aligned(lines) == WellFormed(RecordLines(lines))

\* the candidates of the last remove whose prompt was answered yes or failed
ConfirmedOrFailed ==
    { op.matches[p] : p \in { q \in 1..Len(op.answers) : op.answers[q] # "no" } }

C14_PromptFailureRemoves ==
    op.name = "remove"
        => /\ op.result # "ReadingInputFailed"
           /\ Aligned(PreLines)
                => /\ op.result = "Ok"
                   /\ Len(op.answers) = Len(op.matches)
                   /\ store = serialize(DeletePairs(PreLines, ConfirmedOrFailed))

C14_Witness ==
    /\ op.name = "remove" /\ WellFormed(PreLines) /\ Len(PreLines) = 4
    /\ op.answers = <<"fail", "no">>
    /\ StoreLines = SubSeq(PreLines, 3, 4)

(***************************************************************************)
(* C15: add with an empty or whitespace-only command fails with AddFailed, *)
(* prompts for nothing, writes nothing and leaves the file's text as it is.*)
(***************************************************************************)
C15_EmptyCommandRejected ==
    (op.name = "add" /\ op.command \in {<<>>, <<SP>>})
        => /\ op.result = "AddFailed"
           /\ op.answers = <<>>
           /\ ~op.wrote
           /\ store = pre

C15_Witness ==
    /\ op.name = "add" /\ op.command = <<SP>> /\ op.result = "AddFailed"
    /\ store = pre /\ Len(PreLines) >= 2

(***************************************************************************)
(* C16: for a stored command line handed to the invoker, the program is    *)
(* the text before the first space and the arguments are the rest split on *)
(* spaces; a command line without a space gives the program and no         *)
(* arguments, not an index out of range.                                   *)
(***************************************************************************)
HasSpace(cmd) == \E i \in 1..Len(cmd) : cmd[i] = SP

FirstSpace(cmd) == CHOOSE i \in 1..Len(cmd) : cmd[i] = SP /\ \A j \in 1..(i - 1) : cmd[j] # SP

C16_PrepareSplitsCommand ==
    (/\ op.name = "search" /\ WellFormed(PreLines)
     /\ Len(op.matches) >= 2 /\ op.invoked # <<>>)
        => LET cmd == op.invoked[1]
           IN  /\ op.result # "panic"
               /\ IF HasSpace(cmd)
                  THEN /\ op.program = SubSeq(cmd, 1, FirstSpace(cmd) - 1)
                       /\ op.args = Split(SubSeq(cmd, FirstSpace(cmd) + 1, Len(cmd)), SP)
                  ELSE op.program = cmd /\ op.args = <<>>

(***************************************************************************)
(* C17: the matcher returns, in increasing order and each once, exactly    *)
(* the indices i + 1 of the lines i that start with the marker and contain *)
(* one of the keywords as a substring; nothing when no line qualifies.     *)
(***************************************************************************)
Qualifies(line, keywords) ==
    /\ Len(line) >= 1 /\ line[1] = MARK
    /\ \E k \in 1..Len(keywords) :
         \E from \in 1..(Len(line) + 1), to \in 0..Len(line) :
            SubSeq(line, from, to) = keywords[k]

C17_MatcherIndices ==
    m_out # <<>>
        => LET r == m_out[1]
               lines == m_in.data_lines
           IN  /\ \A p \in 1..(Len(r) - 1) : r[p] < r[p + 1]
               /\ Range(r) = { i + 1 : i \in { j \in 0..(Len(lines) - 1) :
                                                 Qualifies(lines[j + 1], m_in.keywords) } }

C17_Witness ==
    /\ m_out = << <<1>> >>
    /\ m_in.data_lines = << <<MARK, SP, "a", "b">>, <<"a">> >>
    /\ m_in.keywords = << <<"b", "a">>, <<"a">> >>

(***************************************************************************)
(* C20: every index the matcher returns to remove or search is an index of *)
(* the store, and no remove fails on an index out of range.                *)
(***************************************************************************)
C20_MatcherIndicesInRange ==
    op.name \in {"remove", "search"}
        => /\ \A p \in 1..Len(op.matches) : op.matches[p] < Len(PreLines)
           /\ op.name = "remove" => op.result # "panic"

\* how many times the event occurs in the log of an invocation
Count(log, event) == Cardinality({ i \in 1..Len(log) : log[i] = event })

(***************************************************************************)
(* C18: every invocation reads the file at most once and writes it at most *)
(* once; its read comes before each of its prompts, each of its prompts    *)
(* before its write, and a search never writes, whatever the answers.      *)
(***************************************************************************)
C18_OneReadOneWriteInOrder ==
    \A p \in Procs :
      LET log == procs[p].log
      IN  /\ Count(log, "read") <= 1
          /\ Count(log, "write") <= 1
          /\ \A j \in 1..Len(log) :
               log[j] = "prompt" => /\ \E i \in 1..(j - 1) : log[i] = "read"
                                    /\ \A i \in 1..(j - 1) : log[i] # "write"
          /\ \A j \in 1..Len(log) :
               log[j] = "write" => \E i \in 1..(j - 1) : log[i] = "read"
          /\ procs[p].name = "search" => Count(log, "write") = 0

\* a remove that prompted twice, one prompt failing, and then wrote
C18_Witness ==
    \E p \in Procs :
      /\ procs[p].name = "remove"
      /\ procs[p].log = <<"read", "prompt", "prompt", "write">>
      /\ "fail" \in Range(procs[p].answers)

(***************************************************************************)
(* C19: nothing detects a write made between an invocation's read and its  *)
(* write: the last writer ends with Ok and the file is the text it         *)
(* computed from its own read (its record appended to that copy for a new  *)
(* command, its removals applied to that copy for a remove), so that two   *)
(* racing adds of distinct new commands can both succeed and leave only    *)
(* the last writer's record in the file.                                   *)
(***************************************************************************)
C19_LastWriterWins ==
    writer # 0 =>
      LET w == procs[writer]
          keep == [p \in 1..w.asked |-> remove_command_filter(w.answers[p])]
      IN  /\ w.pc = "done"
          /\ w.result = "Ok"
          /\ (w.name = "add" /\ w.answers = <<>>) =>
               store = write_reminders_file(add_new_command(w.data, w.command, w.keywords))
          /\ w.name = "remove" =>
               store = serialize(remove_records(Lines(w.data),
                                                Reverse(Filter(w.matches, keep))).lines)

\* both adds of distinct new commands ended with Ok after reading the same
\* text, and the file holds the last writer's command but not the other's
C19_Witness ==
    \E p \in Procs, q \in Procs :
      /\ p # q
      /\ writer = p
      /\ \A x \in {p, q} : /\ procs[x].pc = "done"
                           /\ procs[x].name = "add"
                           /\ procs[x].result = "Ok"
                           /\ procs[x].log = <<"read", "write">>
                           /\ procs[x].command \notin Range(Lines(procs[x].data))
      /\ procs[p].command # procs[q].command
      /\ procs[p].data = procs[q].data
      /\ procs[p].command \in Range(StoreLines)
      /\ procs[q].command \notin Range(StoreLines)

====
